---- MODULE Spec2Model ----
(***************************************************************************)
(* The equipment detail and booking page, src/src/pages/EquipmentDetails.tsx *)
(* modelled as a state machine: the component's useState cells, the route  *)
(* identifier, the asynchronous operations in flight (auth check, equipment *)
(* fetches, booking inserts) and the user events the rendered view offers. *)
(*                                                                         *)
(* Time is counted in hours since the epoch (UTC).  A date string of the   *)
(* date inputs is a day number; the empty string is NoDate.                *)
(***************************************************************************)
EXTENDS Integers, Sequences, FiniteSets, TLC

\* ---------------------------------------------------------------- bounds
MaxDay == 4          \* the date inputs offer the days 0..MaxDay
MaxInFlight == 2     \* equipment fetches in flight at once
MaxPending == 2      \* booking inserts in flight at once

\* ------------------------------------------------------------- constants
HoursPerDay == 24    \* 1000 * 60 * 60 * 24 ms, in the model's unit (hours)
FeePercent == 5      \* subtotal * 0.05

\* ------------------------------------------------------------- the world
NoUser == "none"
Users == {"u1", "u2"}

NoDate == -1                     \* '' in a date input
NaN == -1000000                  \* getTime() of an Invalid Date
Days == 0 .. MaxDay
DateValues == Days \cup {NoDate}
NotesValues == {"", "ramp"}

\* The clock and time zone of the browser: 10:00 UTC on day 1, seen from
\* UTC-5 (05:00 local, day 1) or from UTC+2 (12:00 local, day 1).
Clocks == {[now |-> 34, tz |-> -5], [now |-> 34, tz |-> 2]}

\* The rows of the equipment table the page can be routed to.
EquipIds == {1, 2}
EquipmentRow(e) ==
  [id |-> e,
   rate |-> IF e = 1 THEN 50 ELSE 100,
   user_id |-> IF e = 1 THEN "u2" ELSE "u1",
   status |-> "available"]
NoEquipment == [id |-> 0, rate |-> 0, user_id |-> "nobody", status |-> "none"]

\* alert() texts
OwnAlert == "You cannot book your own equipment"
PastAlert == "Start date cannot be in the past"
RangeAlert == "End date must be after start date"
MinAlert == "Minimum booking duration is 1 day"
SuccessAlert == "Booking request sent successfully"
FailAlert == "Failed to submit booking request"

VARIABLES
  id,               \* useParams().id
  user,             \* useAuthStore().user (its id), the session's user
  clock,            \* the browser's clock and time zone
  location,         \* "details" while this page is mounted, else where navigate() went
  authCheck,        \* "pending" while supabase.auth.getUser() is in flight
  fetches,          \* fetches[e]: fetchEquipmentDetails calls in flight for id e
  equipment,        \* useState<Equipment | null>
  loading,          \* useState(true)
  showBookingModal, \* useState(false)
  bookingData,      \* useState<BookingData>
  duration,         \* useState(0)
  totalAmount,      \* useState(0)
  submitting,       \* useState(false)
  pendingInserts,   \* booking records sent to the store, not yet answered
  bookings,         \* the rows the bookings table accepted
  alerts,           \* the alert() calls of the handler that ran last
  submitCalled      \* the handler that ran last is the form's onSubmit

vars == <<id, user, clock, location, authCheck, fetches, equipment, loading,
          showBookingModal, bookingData, duration, totalAmount, submitting,
          pendingInserts, bookings, alerts, submitCalled>>

\* ------------------------------------------------------- pure functions
\* Math.floor in place of Math.round
MathFloor(num, den) == num \div den

\* Math.round(num / den) for num >= 0: halves round up.
MathRound(num, den) == (2 * num + den) \div (2 * den)

\* Math.ceil(num / den) for num >= 0
MathCeil(num, den) == (num + den - 1) \div den

Abs(x) == IF x < 0 THEN -x ELSE x

\* new Date(s).getTime(): a date-only string is midnight UTC of that day
ParseDate(s) == IF s = NoDate THEN NaN ELSE s * HoursPerDay

\* today = new Date(); today.setHours(0, 0, 0, 0): local midnight, in UTC hours
TodayMidnight ==
  ((clock.now + clock.tz) \div HoursPerDay) * HoursPerDay - clock.tz

\* < and >= of two Dates: false when either is an Invalid Date
DateLT(a, b) == a # NaN /\ b # NaN /\ a < b
DateGE(a, b) == a # NaN /\ b # NaN /\ a >= b

\* calculateDuration without Math.abs
calculateDurationSigned(start, end) ==
  MathCeil(ParseDate(end) - ParseDate(start), HoursPerDay)

calculateDuration(start, end) ==
  MathCeil(Abs(ParseDate(end) - ParseDate(start)), HoursPerDay)

ServiceFee(subtotal) == MathRound(subtotal * FeePercent, 100)

\* the useEffect on [duration, equipment?.rate]
TotalEffect(d, eq) ==
  IF d > 0 /\ eq.rate # 0
  THEN d * eq.rate + ServiceFee(d * eq.rate)
  ELSE 0

\* ---------------------------------------------------------- the view
Mounted == location = "details"
isOwner == user # NoUser /\ equipment # NoEquipment /\ user = equipment.user_id
View == IF loading THEN "loading"
        ELSE IF equipment = NoEquipment THEN "notFound" ELSE "detail"
ModalRendered == Mounted /\ View = "detail" /\ showBookingModal
BookNowEnabled == Mounted /\ View = "detail" /\ ~isOwner
                  /\ equipment.status = "available"
CancelEnabled == ModalRendered /\ ~submitting
\* the submit button disabled on duration < 1 alone
SubmitEnabledWhileSubmitting == ModalRendered /\ ~(duration < 1)

SubmitEnabled == ModalRendered /\ ~(submitting \/ duration < 1)
PriceBreakdownShown == ModalRendered /\ duration > 0

InFlight == fetches[1] + fetches[2]

\* ---------------------------------------------------------- Init
Init ==
  /\ id \in EquipIds
  /\ user \in Users \cup {NoUser}
  /\ clock \in Clocks
  /\ location = "details"
  /\ authCheck = "pending"
  /\ fetches = [e \in EquipIds |-> IF e = id THEN 1 ELSE 0]
  /\ equipment = NoEquipment
  /\ loading = TRUE
  /\ showBookingModal = FALSE
  /\ bookingData = [startDate |-> NoDate, endDate |-> NoDate, notes |-> ""]
  /\ duration = 0
  /\ totalAmount = 0
  /\ submitting = FALSE
  /\ pendingInserts = <<>>
  /\ bookings = <<>>
  /\ alerts = <<>>
  /\ submitCalled = FALSE

\* ---------------------------------------------------------- actions
\* checkAuth, after the await
CheckAuthComplete ==
  /\ authCheck = "pending"
  /\ authCheck' = "done"
  /\ location' = IF user = NoUser THEN "auth" ELSE location
  /\ alerts' = <<>>
  /\ submitCalled' = FALSE
  /\ UNCHANGED <<id, user, clock, fetches, equipment, loading, showBookingModal,
                 bookingData, duration, totalAmount, submitting, pendingInserts,
                 bookings>>

\* the route identifier changes; useEffect([id]) calls fetchEquipmentDetails
RouteChange(e) ==
  /\ Mounted
  /\ e # id
  /\ InFlight < MaxInFlight
  /\ id' = e
  /\ loading' = TRUE
  /\ fetches' = [fetches EXCEPT ![e] = @ + 1]
  /\ alerts' = <<>>
  /\ submitCalled' = FALSE
  /\ UNCHANGED <<user, clock, location, authCheck, equipment, showBookingModal,
                 bookingData, duration, totalAmount, submitting, pendingInserts,
                 bookings>>

\* fetchEquipmentDetails, after the await, for the identifier e it was called with
FetchComplete(e, outcome) ==
  /\ fetches[e] > 0
  /\ fetches' = [fetches EXCEPT ![e] = @ - 1]
  /\ IF Mounted
     THEN /\ equipment' = IF outcome = "data" THEN EquipmentRow(e) ELSE equipment
          /\ loading' = FALSE
          /\ totalAmount' = TotalEffect(duration, equipment')
     ELSE UNCHANGED <<equipment, loading, totalAmount>>
  /\ alerts' = <<>>
  /\ submitCalled' = FALSE
  /\ UNCHANGED <<id, user, clock, location, authCheck, showBookingModal,
                 bookingData, duration, submitting, pendingInserts, bookings>>

\* the Book Now button
BookNow ==
  /\ BookNowEnabled
  /\ showBookingModal' = TRUE
  /\ alerts' = <<>>
  /\ submitCalled' = FALSE
  /\ UNCHANGED <<id, user, clock, location, authCheck, fetches, equipment,
                 loading, bookingData, duration, totalAmount, submitting,
                 pendingInserts, bookings>>

\* the X button of the modal header
CloseModal ==
  /\ ModalRendered
  /\ showBookingModal' = FALSE
  /\ alerts' = <<>>
  /\ submitCalled' = FALSE
  /\ UNCHANGED <<id, user, clock, location, authCheck, fetches, equipment,
                 loading, bookingData, duration, totalAmount, submitting,
                 pendingInserts, bookings>>

\* the Cancel button
Cancel ==
  /\ CancelEnabled
  /\ showBookingModal' = FALSE
  /\ alerts' = <<>>
  /\ submitCalled' = FALSE
  /\ UNCHANGED <<id, user, clock, location, authCheck, fetches, equipment,
                 loading, bookingData, duration, totalAmount, submitting,
                 pendingInserts, bookings>>

\* handleDateChange(field, value), and the totals effect that follows it
handleDateChange(field, value) ==
  /\ bookingData' = [bookingData EXCEPT ![field] = value]
  /\ duration' = IF bookingData'.startDate # NoDate /\ bookingData'.endDate # NoDate
                 THEN calculateDuration(bookingData'.startDate, bookingData'.endDate)
                 ELSE 0
  /\ totalAmount' = TotalEffect(duration', equipment)

DateChange(field, value) ==
  /\ ModalRendered
  /\ bookingData[field] # value
  /\ handleDateChange(field, value)
  /\ alerts' = <<>>
  /\ submitCalled' = FALSE
  /\ UNCHANGED <<id, user, clock, location, authCheck, fetches, equipment,
                 loading, showBookingModal, submitting, pendingInserts, bookings>>

\* the notes textarea
NotesChange(value) ==
  /\ ModalRendered
  /\ bookingData.notes # value
  /\ bookingData' = [bookingData EXCEPT !.notes = value]
  /\ alerts' = <<>>
  /\ submitCalled' = FALSE
  /\ UNCHANGED <<id, user, clock, location, authCheck, fetches, equipment,
                 loading, showBookingModal, duration, totalAmount, submitting,
                 pendingInserts, bookings>>

\* the record handleBookingSubmit builds
BookingRecord ==
  [equipment_id |-> equipment.id,
   user_id |-> user,
   start_date |-> bookingData.startDate,
   end_date |-> bookingData.endDate,
   days |-> duration,
   rate_per_day |-> equipment.rate,
   subtotal |-> duration * equipment.rate,
   service_fee |-> ServiceFee(duration * equipment.rate),
   total_amount |-> duration * equipment.rate + ServiceFee(duration * equipment.rate),
   status |-> "pending",
   notes |-> IF bookingData.notes = "" THEN "null" ELSE bookingData.notes]

\* Validation with the past-date check left out
ValidationNoPastCheck ==
  IF user = NoUser \/ equipment = NoEquipment THEN "silent"
  ELSE IF user = equipment.user_id THEN OwnAlert
  ELSE IF DateGE(ParseDate(bookingData.startDate), ParseDate(bookingData.endDate))
       THEN RangeAlert
  ELSE IF duration < 1 THEN MinAlert
  ELSE "none"

\* Validation with the session check left out
ValidationNoSessionCheck ==
  IF equipment = NoEquipment THEN "silent"
  ELSE IF user = equipment.user_id THEN OwnAlert
  ELSE IF DateLT(ParseDate(bookingData.startDate), TodayMidnight) THEN PastAlert
  ELSE IF DateGE(ParseDate(bookingData.startDate), ParseDate(bookingData.endDate))
       THEN RangeAlert
  ELSE IF duration < 1 THEN MinAlert
  ELSE "none"

\* Validation with the range check made before the past-date check
ValidationRangeFirst ==
  IF user = NoUser \/ equipment = NoEquipment THEN "silent"
  ELSE IF user = equipment.user_id THEN OwnAlert
  ELSE IF DateGE(ParseDate(bookingData.startDate), ParseDate(bookingData.endDate))
       THEN RangeAlert
  ELSE IF DateLT(ParseDate(bookingData.startDate), TodayMidnight) THEN PastAlert
  ELSE IF duration < 1 THEN MinAlert
  ELSE "none"

\* the alert of the check that stops handleBookingSubmit: "silent" for the
\* bare return, "none" when every check passes
Validation ==
  IF user = NoUser \/ equipment = NoEquipment THEN "silent"
  ELSE IF user = equipment.user_id THEN OwnAlert
  ELSE IF DateLT(ParseDate(bookingData.startDate), TodayMidnight) THEN PastAlert
  ELSE IF DateGE(ParseDate(bookingData.startDate), ParseDate(bookingData.endDate))
       THEN RangeAlert
  ELSE IF duration < 1 THEN MinAlert
  ELSE "none"

\* handleBookingSubmit, up to its await
handleBookingSubmit ==
  /\ Len(pendingInserts) < MaxPending
  /\ submitCalled' = TRUE
  /\ IF Validation = "none"
     THEN /\ submitting' = TRUE
          /\ pendingInserts' = Append(pendingInserts, BookingRecord)
          /\ alerts' = <<>>
     ELSE /\ alerts' = IF Validation = "silent" THEN <<>> ELSE <<Validation>>
          /\ UNCHANGED <<submitting, pendingInserts>>
  /\ UNCHANGED <<id, user, clock, location, authCheck, fetches, equipment,
                 loading, showBookingModal, bookingData, duration, totalAmount,
                 bookings>>

\* the form's submit event
SubmitForm ==
  /\ SubmitEnabled
  /\ handleBookingSubmit

\* handleBookingSubmit, after the await: the store answers the oldest insert
InsertComplete(ok) ==
  /\ pendingInserts # <<>>
  /\ pendingInserts' = Tail(pendingInserts)
  /\ bookings' = IF ok THEN Append(bookings, Head(pendingInserts)) ELSE bookings
  /\ alerts' = IF ok THEN <<SuccessAlert>> ELSE <<FailAlert>>
  /\ submitCalled' = FALSE
  /\ location' = IF ok THEN "dashboard" ELSE location
  /\ IF Mounted
     THEN /\ showBookingModal' = IF ok THEN FALSE ELSE showBookingModal
          /\ submitting' = FALSE
     ELSE UNCHANGED <<showBookingModal, submitting>>
  /\ UNCHANGED <<id, user, clock, authCheck, fetches, equipment, loading,
                 bookingData, duration, totalAmount>>

Next ==
  \/ CheckAuthComplete
  \/ \E e \in EquipIds : RouteChange(e)
  \/ \E e \in EquipIds, outcome \in {"data", "error", "nodata"} : FetchComplete(e, outcome)
  \/ BookNow
  \/ CloseModal
  \/ Cancel
  \/ \E field \in {"startDate", "endDate"}, value \in DateValues : DateChange(field, value)
  \/ \E value \in NotesValues : NotesChange(value)
  \/ SubmitForm
  \/ \E ok \in BOOLEAN : InsertComplete(ok)

Spec == Init /\ [][Next]_vars

\* ------------------------------------------------------------ claims
\* the calendar day of the browser's local clock
LocalToday == (clock.now + clock.tz) \div HoursPerDay

\* the start date, read as the code reads it (midnight UTC of that day), lies
\* before the local midnight that began today
StartBeforeToday ==
  /\ bookingData.startDate # NoDate
  /\ bookingData.startDate * HoursPerDay + clock.tz < LocalToday * HoursPerDay

StartNotBeforeEnd ==
  /\ bookingData.startDate # NoDate
  /\ bookingData.endDate # NoDate
  /\ bookingData.startDate >= bookingData.endDate

\* C1: a handleBookingSubmit call made while the user is the owner, or the
\* start date is before today, or start >= end, or duration < 1, issues no
\* insert and leaves the modal flag, the draft and the duration as they were.
C1_RejectedSubmitChangesNothing ==
  [][ (SubmitForm /\ (isOwner \/ StartBeforeToday \/ StartNotBeforeEnd \/ duration < 1))
      => (/\ pendingInserts' = pendingInserts
          /\ bookings' = bookings
          /\ showBookingModal' = showBookingModal
          /\ bookingData' = bookingData
          /\ duration' = duration) ]_vars

\* a rejected call has happened: the past-date alert is up, the form is as it was
C1_Witness ==
  /\ submitCalled
  /\ alerts = <<PastAlert>>
  /\ StartBeforeToday
  /\ ModalRendered
  /\ pendingInserts = <<>>

\* C2: every record sent to the store has status "pending", the loaded
\* equipment's rate, days = duration >= 1, subtotal = days * rate,
\* service_fee = 5% of the subtotal rounded half up, total = subtotal + fee.
C2_RecordSent(r) ==
  /\ r.status = "pending"
  /\ r.rate_per_day = equipment.rate
  /\ r.equipment_id = equipment.id
  /\ r.days = duration
  /\ r.days >= 1
  /\ r.subtotal = r.days * r.rate_per_day
  /\ \E n \in 0 .. r.subtotal :
        /\ 200 * n - 100 <= 10 * r.subtotal
        /\ 10 * r.subtotal < 200 * n + 100
        /\ r.service_fee = n
  /\ r.total_amount = r.subtotal + r.service_fee
  /\ (r.rate_per_day = 50 /\ r.days = 2) =>
        (r.subtotal = 100 /\ r.service_fee = 5 /\ r.total_amount = 105)
  /\ (r.rate_per_day = 100 /\ r.days = 3) =>
        (r.subtotal = 300 /\ r.service_fee = 15 /\ r.total_amount = 315)

C2_SentRecordIsPriced ==
  [][ Len(pendingInserts') > Len(pendingInserts)
      => C2_RecordSent(pendingInserts'[Len(pendingInserts')]) ]_vars

\* the 2-day booking of the rate-50 item was accepted by the store
C2_Witness ==
  \E i \in 1 .. Len(bookings) :
     /\ bookings[i].rate_per_day = 50
     /\ bookings[i].days = 2
     /\ bookings[i].total_amount = 105
     /\ bookings[i].status = "pending"

C2_Witness315 ==
  \E i \in 1 .. Len(bookings) :
     /\ bookings[i].rate_per_day = 100
     /\ bookings[i].days = 3
     /\ bookings[i].total_amount = 315

EmptyDraft == [startDate |-> NoDate, endDate |-> NoDate, notes |-> ""]

\* C3: when an insert fails, the booking modal is open afterwards and the
\* draft is still in the form, whatever the user did while it was in flight.
C3_FailureLeavesModalOpen ==
  (Mounted /\ alerts = <<FailAlert>>) =>
     (showBookingModal /\ bookingData # EmptyDraft)

\* C4: at most one booking insert is outstanding at any time, and one is
\* outstanding only while the submitting flag is set.
C4_AtMostOneInsert ==
  /\ Len(pendingInserts) <= 1
  /\ pendingInserts # <<>> => submitting
  /\ Len(bookings) + Len(pendingInserts) <= 1

\* an insert is outstanding while the modal, closed and reopened or not, shows
\* a form that could otherwise be submitted
C4_Witness ==
  /\ Len(pendingInserts) = 1
  /\ submitting
  /\ ModalRendered
  /\ duration >= 1
  /\ bookingData.startDate # pendingInserts[1].start_date

\* C5: whenever the modal is closed the draft is empty and the duration is 0.
C5_ClosedModalHasNoDraft ==
  (Mounted /\ ~showBookingModal) => (bookingData = EmptyDraft /\ duration = 0)

\* C6: when the fetch that completes with an error is the only one in flight,
\* the equipment state is empty afterwards and the not-found view is shown.
C6_FetchErrorShowsNotFound ==
  [][ (Mounted /\ InFlight = 1 /\ \E e \in EquipIds : FetchComplete(e, "error"))
      => (equipment' = NoEquipment /\ View' = "notFound") ]_vars

C8_FirstFailing ==
  IF isOwner THEN OwnAlert
  ELSE IF StartBeforeToday THEN PastAlert
  ELSE IF StartNotBeforeEnd THEN RangeAlert
  ELSE IF duration < 1 THEN MinAlert
  ELSE "none"

\* C8: every handleBookingSubmit call that aborts before the store is
\* contacted has shown exactly one alert, the one of the first failing check
\* (a missing session or equipment record included).
C8_EveryAbortShowsOneAlert ==
  [][ (SubmitForm /\ pendingInserts' = pendingInserts)
      => /\ Len(alerts') = 1
         /\ (user # NoUser /\ equipment # NoEquipment) => alerts' = <<C8_FirstFailing>> ]_vars

\* C8, amended: a call that finds no session or no equipment aborts with no
\* alert; any other call aborts exactly when one of the checks (2)-(5) fails,
\* and then shows the one alert of the first failing check.
C8_AbortShowsFirstAlertUnlessNoSession ==
  [][ SubmitForm =>
        IF user = NoUser \/ equipment = NoEquipment
        THEN pendingInserts' = pendingInserts /\ alerts' = <<>>
        ELSE IF C8_FirstFailing = "none"
        THEN Len(pendingInserts') = Len(pendingInserts) + 1 /\ alerts' = <<>>
        ELSE pendingInserts' = pendingInserts /\ alerts' = <<C8_FirstFailing>> ]_vars

\* check (4) was the first to fail and its alert is up
C8_Witness ==
  /\ submitCalled
  /\ alerts = <<RangeAlert>>
  /\ ModalRendered
  /\ ~isOwner
  /\ ~StartBeforeToday
  /\ StartNotBeforeEnd
  /\ pendingInserts = <<>>

\* C9: the booking modal is open only when the current user is not the owner
\* of the loaded equipment.
C9_ModalOpenImpliesNotOwner ==
  showBookingModal => ~isOwner

\* the day span of the draft: the least n with n days >= |end - start|
C10_Span ==
  IF bookingData.startDate = NoDate \/ bookingData.endDate = NoDate
  THEN 0
  ELSE IF bookingData.endDate >= bookingData.startDate
       THEN bookingData.endDate - bookingData.startDate
       ELSE bookingData.startDate - bookingData.endDate

\* C10: the duration state is the day span of the draft's dates, 0 when either
\* is absent; with start = end it is 0, the submit button is disabled and no
\* price breakdown is shown.
C10_DurationTracksDraft ==
  /\ duration = C10_Span
  /\ (bookingData.startDate # NoDate /\ bookingData.startDate = bookingData.endDate)
       => (duration = 0 /\ ~SubmitEnabled /\ ~PriceBreakdownShown)

\* the draft has start = end, after notes were typed
C10_Witness ==
  /\ ModalRendered
  /\ bookingData.startDate # NoDate
  /\ bookingData.startDate = bookingData.endDate
  /\ bookingData.notes # ""
  /\ duration = 0

\* the draft has its dates inverted
C10_WitnessInverted ==
  /\ ModalRendered
  /\ bookingData.endDate # NoDate
  /\ bookingData.startDate > bookingData.endDate
  /\ duration > 0

\* C11: when the last equipment fetch in flight answers with a record, the
\* equipment state holds the record of the current route identifier: the
\* response of an older fetch does not end up as the displayed equipment,
\* whatever the order in which the responses arrive.
C11_LastResponseIsCurrentId ==
  [][ (Mounted /\ InFlight = 1 /\ \E e \in EquipIds : FetchComplete(e, "data"))
      => (equipment' # NoEquipment /\ equipment'.id = id') ]_vars

====
